---- MODULE Spec2Model ----
(***************************************************************************)
(* A model of appletar's request handlers (src/main.go): the skin          *)
(* resolver fetchSkin with its disk cache (getLocalSkin / saveLocalSkin),  *)
(* the processed-image handler fetchImageProcessThen, the raw-skin         *)
(* handlers skinPage / downloadPage, and the size parser rationalizeSize.  *)
(*                                                                         *)
(* Every request runs on its own goroutine (net/http), so a handler is a   *)
(* process with a program counter; its steps are the points where it       *)
(* touches the file system or a remote service.  The outcome of a remote   *)
(* call or of a file operation is an input, chosen per call.               *)
(***************************************************************************)
EXTENDS Integers, Sequences, FiniteSets, TLC

VARIABLES
    DiskCache,  \* Config.DiskCache
    disk,       \* the files skins/<key>.png, by key: what each decodes to
    trailing,   \* the bytes a file holds behind its image: whose skin's end
    pc,         \* each handler's position
    req,        \* each handler's request: route, username, size
    size,       \* the size rationalizeSize gave the request
    local,      \* what getLocalSkin found for the request
    skin,       \* the handler's variable skin
    user,       \* the Name of the handler's variable user
    calls,      \* the remote calls of the request's resolution, in order
    saved,      \* how far saveLocalSkin got for the request
    resp,       \* the response the handler wrote
    accepted,   \* how many requests have been accepted
    sizeIn,     \* the argument of a rationalizeSize call on its own
    sizeOut,    \* its result
    stamps,     \* the four time.Now() of a request, in nanoseconds
    timing      \* the four numbers of its X-Timing header

vars == <<DiskCache, disk, pc, req, size, local, skin, user, calls, saved,
          resp, accepted, sizeIn, sizeOut, stamps, timing>>

----------------------------------------------------------------------------
(* Bounds of the model *)

\* requests accepted in one behaviour
MaxRequests == 2

\* length of the size strings rationalizeSize is applied to
MaxSizeLen == 3

\* the time.Now() readings of SpecTiming are 0..MaxTicks ticks of TickNanos
\* nanoseconds
MaxTicks == 5
TickNanos == 400000

\* width of the machine's uint in bits (Go has 32 or 64; the parser's
\* range check is the same at any width above MaxSize)
UintBits == 9

----------------------------------------------------------------------------
(* Constants of the program *)

DefaultSize == 180
MaxSize == 300
MinSize == 8

Minutes == 60
Hours == 60 * Minutes
Days == 24 * Hours
TimeoutActualSkin == 2 * Days
TimeoutFailedFetch == 15 * Minutes

----------------------------------------------------------------------------
(* Values *)

\* the goroutines serving requests
Workers == {"g1", "g2"}

\* usernames the router lets through (minecraft.ValidUsernameRegex); the
\* identity service may answer a request for one with the other
Names == {"notch", "Notch"}

\* the usernames of the requests of Spec
Usernames == {"notch"}

\* the name of the default skin
CharName == "char"

\* the Name of the zero minecraft.User
NoName == ""

\* a skin is named by whose it is; NilSkin is the zero minecraft.Skin
NilSkin == "nil"
DefaultSkin == CharName
RealSkins == Names
Skins == RealSkins \cup {DefaultSkin, NilSkin}

\* a file of the cache: absent, bytes that do not decode, or an image
Absent == "absent"
Garbage == "garbage"
Keys == Names \cup {NoName}
Files == {Absent, Garbage} \cup RealSkins \cup {DefaultSkin}

\* no bytes behind the image
NoTrailing == "none"

\* skin a has more bytes than skin b: the default skin has the fewest, and
\* of the two names the second has the more
Longer(a, b) ==
    <<a, b>> \in {<<"notch", CharName>>, <<"Notch", CharName>>,
                  <<"Notch", "notch">>}

Routes == {"avatar", "helm", "skin", "download"}
Processed == {"avatar", "helm"}

Digits == {"0", "1", "2", "3", "4", "5", "6", "7", "8", "9"}
Chars == Digits \cup {"x"}

\* the requests of Spec: /avatar/<name>, /helm/<name>/64, /skin/<name> and
\* /download/<name> (the routes without {size} leave vars["size"] empty)
Requests ==
    {[route |-> "avatar", username |-> n, size |-> <<>>] : n \in Usernames}
    \cup {[route |-> "helm", username |-> n, size |-> <<"6", "4">>] :
             n \in Usernames}
    \cup {[route |-> r, username |-> n, size |-> <<>>] :
             r \in {"skin", "download"}, n \in Usernames}

NoReq == [route |-> "none", username |-> NoName, size |-> <<>>]
NoResp == [status |-> 0, requested |-> "", result |-> "", maxAge |-> -1,
           attachment |-> FALSE, view |-> "", image |-> NilSkin, side |-> 0]

----------------------------------------------------------------------------
(* rationalizeSize *)

DigitValue(c) ==
    CASE c = "0" -> 0 [] c = "1" -> 1 [] c = "2" -> 2 [] c = "3" -> 3
      [] c = "4" -> 4 [] c = "5" -> 5 [] c = "6" -> 6 [] c = "7" -> 7
      [] c = "8" -> 8 [] c = "9" -> 9

\* the largest uint
MaxUint == 2 ^ UintBits - 1

\* strconv.ParseUint(s, 10, 0) from character i on, n being the value of the
\* characters before it: the value and the error ("" for nil).  A character
\* that is no digit is a syntax error with value 0; a value that does not
\* fit the uint is a range error with the largest uint as value.
RECURSIVE ParseDigits(_, _, _)
ParseDigits(s, i, n) ==
    IF i > Len(s) THEN [val |-> n, err |-> ""]
    ELSE IF s[i] \notin Digits THEN [val |-> 0, err |-> "syntax"]
    ELSE IF n >= MaxUint \div 10 + 1 THEN [val |-> MaxUint, err |-> "range"]
    ELSE IF n * 10 + DigitValue(s[i]) > MaxUint
         THEN [val |-> MaxUint, err |-> "range"]
    ELSE ParseDigits(s, i + 1, n * 10 + DigitValue(s[i]))

ParseUint(s) ==
    IF s = <<>> THEN [val |-> 0, err |-> "syntax"] ELSE ParseDigits(s, 1, 0)

\* rationalizeSize without the two clamps
rationalizeSizeUnclamped(inp) ==
    IF ParseUint(inp).err # "" THEN DefaultSize ELSE ParseUint(inp).val

rationalizeSize(inp) ==
    LET out == ParseUint(inp).val
        err == ParseUint(inp).err
    IN  IF err # "" THEN DefaultSize
        ELSE IF out > MaxSize THEN MaxSize
        ELSE IF out < MinSize THEN MinSize
        ELSE out

\* the strings of at most n characters
StringsUpTo(n) == UNION {[1..k -> Chars] : k \in 0..n}

----------------------------------------------------------------------------
(* The state after main has loaded the configuration and started serving *)

\* The files of skins/ outlive the process: at start the file of a name
\* that is asked for is absent, holds bytes that do not decode, or holds
\* that name's skin.
InitDisk ==
    {d \in [Keys -> Files] :
        /\ \A k \in Keys \ Usernames : d[k] = Absent
        /\ \A n \in Usernames : d[n] \in {Absent, Garbage, n}}

InitHandlers ==
    /\ pc = [w \in Workers |-> "idle"]
    /\ req = [w \in Workers |-> NoReq]
    /\ size = [w \in Workers |-> 0]
    /\ local = [w \in Workers |-> "none"]
    /\ skin = [w \in Workers |-> NilSkin]
    /\ user = [w \in Workers |-> NoName]
    /\ calls = [w \in Workers |-> <<>>]
    /\ saved = [w \in Workers |-> "none"]
    /\ resp = [w \in Workers |-> NoResp]
    /\ accepted = 0

\* no X-Timing computed on its own
NoStamps == <<0, 0, 0, 0>>
NoTiming == <<-1, -1, -1, -1>>

Init ==
    /\ DiskCache \in BOOLEAN
    /\ disk \in InitDisk
    /\ trailing = [k \in Keys |-> NoTrailing]
    /\ InitHandlers
    /\ sizeIn = <<>>
    /\ sizeOut = -1
    /\ stamps = NoStamps
    /\ timing = NoTiming

----------------------------------------------------------------------------
(* The router hands a request to a handler *)

\* main's routes: /avatar and /helm take a username and, optionally, a size
\* of digits; /skin and /download take a username.  The handler for
\* /avatar and /helm starts with rationalizeSize(vars["size"]).
Accept(w, r) ==
    /\ pc[w] \in {"idle", "done"}
    /\ accepted < MaxRequests
    /\ accepted' = accepted + 1
    /\ req' = [req EXCEPT ![w] = r]
    /\ size' = [size EXCEPT ![w] = IF r.route \in Processed
                                   THEN rationalizeSize(r.size) ELSE 0]
    /\ local' = [local EXCEPT ![w] = "none"]
    /\ skin' = [skin EXCEPT ![w] = NilSkin]
    /\ user' = [user EXCEPT ![w] = NoName]
    /\ calls' = [calls EXCEPT ![w] = <<>>]
    /\ saved' = [saved EXCEPT ![w] = "none"]
    /\ resp' = [resp EXCEPT ![w] = NoResp]
    /\ pc' = [pc EXCEPT ![w] = "local"]
    /\ UNCHANGED <<DiskCache, disk, trailing, sizeIn, sizeOut, stamps, timing>>

----------------------------------------------------------------------------
(* fetchSkin *)

\* a decoder that takes any bytes for an image
DecodesAnyBytes(f) == f # Absent

\* getLocalSkin: os.Open fails on a file that is absent, image.Decode on
\* bytes that are no image
Decodes(f) == f \notin {Absent, Garbage}

\* the key getLocalSkin reads for a request
LookupKey(w) == req[w].username

\* Config.DiskCache is off: no look at the disk
LocalSkipped(w) ==
    /\ pc[w] = "local"
    /\ ~DiskCache
    /\ local' = [local EXCEPT ![w] = "skipped"]
    /\ pc' = [pc EXCEPT ![w] = "getskin"]
    /\ UNCHANGED <<DiskCache, disk, trailing, req, size, skin, user, calls, saved,
                   resp, accepted, sizeIn, sizeOut, stamps, timing>>

\* a cache hit that still asks the skin store
LocalHitThenFetch(w) ==
    /\ pc[w] = "local"
    /\ DiskCache
    /\ Decodes(disk[LookupKey(w)])
    /\ local' = [local EXCEPT ![w] = "hit"]
    /\ skin' = [skin EXCEPT ![w] = disk[LookupKey(w)]]
    /\ pc' = [pc EXCEPT ![w] = "getskin"]
    /\ UNCHANGED <<DiskCache, disk, trailing, req, size, user, calls, saved, resp,
                   accepted, sizeIn, sizeOut, stamps, timing>>

\* getLocalSkin returns a skin: fetchSkin returns it
LocalHit(w) ==
    /\ pc[w] = "local"
    /\ DiskCache
    /\ Decodes(disk[LookupKey(w)])
    /\ local' = [local EXCEPT ![w] = "hit"]
    /\ skin' = [skin EXCEPT ![w] = disk[LookupKey(w)]]
    /\ pc' = [pc EXCEPT ![w] = "fetched"]
    /\ UNCHANGED <<DiskCache, disk, trailing, req, size, user, calls, saved, resp,
                   accepted, sizeIn, sizeOut, stamps, timing>>

\* getLocalSkin returns an error: fetchSkin goes on to the skin store
LocalMiss(w) ==
    /\ pc[w] = "local"
    /\ DiskCache
    /\ ~Decodes(disk[LookupKey(w)])
    /\ local' = [local EXCEPT ![w] = disk[LookupKey(w)]]
    /\ pc' = [pc EXCEPT ![w] = "getskin"]
    /\ UNCHANGED <<DiskCache, disk, trailing, req, size, skin, user, calls, saved,
                   resp, accepted, sizeIn, sizeOut, stamps, timing>>

Call(op, name, succeeded) == [op |-> op, name |-> name, ok |-> succeeded]

\* a successful fetch that is still checked against the identity service
GetSkinOkThenLookup(w) ==
    /\ pc[w] = "getskin"
    /\ calls' = [calls EXCEPT ![w] =
                    Append(@, Call("GetSkin", req[w].username, TRUE))]
    /\ skin' = [skin EXCEPT ![w] = req[w].username]
    /\ pc' = [pc EXCEPT ![w] = "getuser"]
    /\ UNCHANGED <<DiskCache, disk, trailing, req, size, local, user, saved, resp,
                   accepted, sizeIn, sizeOut, stamps, timing>>

\* minecraft.GetSkin(minecraft.User{Name: username}) succeeds: fetchSkin
\* returns the skin (the save is in the branch of the failure)
GetSkinOk(w) ==
    /\ pc[w] = "getskin"
    /\ calls' = [calls EXCEPT ![w] =
                    Append(@, Call("GetSkin", req[w].username, TRUE))]
    /\ skin' = [skin EXCEPT ![w] = req[w].username]
    /\ pc' = [pc EXCEPT ![w] = "fetched"]
    /\ UNCHANGED <<DiskCache, disk, trailing, req, size, local, user, saved, resp,
                   accepted, sizeIn, sizeOut, stamps, timing>>

GetSkinFail(w) ==
    /\ pc[w] = "getskin"
    /\ calls' = [calls EXCEPT ![w] =
                    Append(@, Call("GetSkin", req[w].username, FALSE))]
    /\ pc' = [pc EXCEPT ![w] = "getuser"]
    /\ UNCHANGED <<DiskCache, disk, trailing, req, size, local, skin, user, saved,
                   resp, accepted, sizeIn, sizeOut, stamps, timing>>

\* minecraft.GetUser(username) succeeds with the account named c
GetUserOk(w, c) ==
    /\ pc[w] = "getuser"
    /\ calls' = [calls EXCEPT ![w] =
                    Append(@, Call("GetUser", req[w].username, TRUE))]
    /\ user' = [user EXCEPT ![w] = c]
    /\ pc' = [pc EXCEPT ![w] = "getskin2"]
    /\ UNCHANGED <<DiskCache, disk, trailing, req, size, local, skin, saved, resp,
                   accepted, sizeIn, sizeOut, stamps, timing>>

\* a failed lookup that goes on to fetch the skin of the zero User
GetUserFailThenFetch(w) ==
    /\ pc[w] = "getuser"
    /\ calls' = [calls EXCEPT ![w] =
                    Append(@, Call("GetUser", req[w].username, FALSE))]
    /\ user' = [user EXCEPT ![w] = NoName]
    /\ pc' = [pc EXCEPT ![w] = "getskin2"]
    /\ UNCHANGED <<DiskCache, disk, trailing, req, size, local, skin, saved, resp,
                   accepted, sizeIn, sizeOut, stamps, timing>>

\* minecraft.GetUser fails: user is the zero User, and the default skin is
\* fetched from the skin store
GetUserFail(w) ==
    /\ pc[w] = "getuser"
    /\ calls' = [calls EXCEPT ![w] =
                    Append(@, Call("GetUser", req[w].username, FALSE))]
    /\ user' = [user EXCEPT ![w] = NoName]
    /\ pc' = [pc EXCEPT ![w] = "getchar"]
    /\ UNCHANGED <<DiskCache, disk, trailing, req, size, local, skin, saved, resp,
                   accepted, sizeIn, sizeOut, stamps, timing>>

\* minecraft.GetSkin(user)
GetUserSkinOk(w) ==
    /\ pc[w] = "getskin2"
    /\ calls' = [calls EXCEPT ![w] = Append(@, Call("GetSkin", user[w], TRUE))]
    /\ skin' = [skin EXCEPT ![w] = user[w]]
    /\ pc' = [pc EXCEPT ![w] = "save"]
    /\ UNCHANGED <<DiskCache, disk, trailing, req, size, local, user, saved, resp,
                   accepted, sizeIn, sizeOut, stamps, timing>>

GetUserSkinFail(w) ==
    /\ pc[w] = "getskin2"
    /\ calls' = [calls EXCEPT ![w] = Append(@, Call("GetSkin", user[w], FALSE))]
    /\ pc' = [pc EXCEPT ![w] = "getchar"]
    /\ UNCHANGED <<DiskCache, disk, trailing, req, size, local, skin, user, saved,
                   resp, accepted, sizeIn, sizeOut, stamps, timing>>

\* skin, _ = minecraft.GetSkin(minecraft.User{Name: "char"}): the error is
\* dropped, and on a failure skin is the zero Skin
GetCharOk(w) ==
    /\ pc[w] = "getchar"
    /\ calls' = [calls EXCEPT ![w] = Append(@, Call("GetSkin", CharName, TRUE))]
    /\ skin' = [skin EXCEPT ![w] = DefaultSkin]
    /\ pc' = [pc EXCEPT ![w] = "save"]
    /\ UNCHANGED <<DiskCache, disk, trailing, req, size, local, user, saved, resp,
                   accepted, sizeIn, sizeOut, stamps, timing>>

GetCharFail(w) ==
    /\ pc[w] = "getchar"
    /\ calls' = [calls EXCEPT ![w] = Append(@, Call("GetSkin", CharName, FALSE))]
    /\ skin' = [skin EXCEPT ![w] = NilSkin]
    /\ pc' = [pc EXCEPT ![w] = "save"]
    /\ UNCHANGED <<DiskCache, disk, trailing, req, size, local, user, saved, resp,
                   accepted, sizeIn, sizeOut, stamps, timing>>

----------------------------------------------------------------------------
(* saveLocalSkin, called at the end of the branch of the failed fetch *)

\* a save under the name that was asked for
SaveKeyUsername(w) == req[w].username

\* the key saveLocalSkin writes: user.Name
SaveKey(w) == user[w]

\* what a file decodes to once the bytes of skin s are written from its
\* start: the zero Skin has no bytes, and the file stays as it was
Written(f, s) == IF s = NilSkin THEN f ELSE s

\* the skin whose bytes reach the end of a file that decodes to f with t
\* behind it ("" for an empty file)
LongestIn(f, t) ==
    IF t # NoTrailing THEN t ELSE IF f \in {Absent, Garbage} THEN "" ELSE f

\* what lies behind the image once the bytes of skin s are written from the
\* start of such a file: the write does not shorten the file, so the end of
\* a longer skin that was there stays
TrailingWritten(f, t, s) ==
    IF s = NilSkin THEN t
    ELSE IF Longer(LongestIn(f, t), s) THEN LongestIn(f, t)
    ELSE NoTrailing

\* Config.DiskCache is off: no save
SaveSkipped(w) ==
    /\ pc[w] = "save"
    /\ ~DiskCache
    /\ pc' = [pc EXCEPT ![w] = "fetched"]
    /\ UNCHANGED <<DiskCache, disk, trailing, req, size, local, skin, user, calls,
                   saved, resp, accepted, sizeIn, sizeOut, stamps, timing>>

\* ioutil.WriteFile opens the file with O_CREATE|O_TRUNC: it exists and is
\* empty until the bytes are written.  Each writer writes through its own
\* descriptor, from the start of the file.
SaveOpen(w) ==
    /\ pc[w] = "save"
    /\ DiskCache
    /\ disk' = [disk EXCEPT ![SaveKey(w)] = Garbage]
    /\ trailing' = [trailing EXCEPT ![SaveKey(w)] = NoTrailing]
    /\ saved' = [saved EXCEPT ![w] = "opened"]
    /\ pc' = [pc EXCEPT ![w] = "write"]
    /\ UNCHANGED <<DiskCache, req, size, local, skin, user, calls, resp,
                   accepted, sizeIn, sizeOut, stamps, timing>>

\* a failed open that removes the file
SaveOpenFailRemoves(w) ==
    /\ pc[w] = "save"
    /\ DiskCache
    /\ disk' = [disk EXCEPT ![SaveKey(w)] = Absent]
    /\ saved' = [saved EXCEPT ![w] = "openfailed"]
    /\ pc' = [pc EXCEPT ![w] = "fetched"]
    /\ UNCHANGED <<DiskCache, trailing, req, size, local, skin, user, calls,
                   resp, accepted, sizeIn, sizeOut, stamps, timing>>

\* the open fails; saveLocalSkin drops the error
SaveOpenFail(w) ==
    /\ pc[w] = "save"
    /\ DiskCache
    /\ saved' = [saved EXCEPT ![w] = "openfailed"]
    /\ pc' = [pc EXCEPT ![w] = "fetched"]
    /\ UNCHANGED <<DiskCache, disk, trailing, req, size, local, skin, user, calls,
                   resp, accepted, sizeIn, sizeOut, stamps, timing>>

\* the bytes are written
SaveWrite(w) ==
    /\ pc[w] = "write"
    /\ disk' = [disk EXCEPT ![SaveKey(w)] = Written(@, skin[w])]
    /\ trailing' = [trailing EXCEPT ![SaveKey(w)] =
                       TrailingWritten(disk[SaveKey(w)], @, skin[w])]
    /\ saved' = [saved EXCEPT ![w] = "written"]
    /\ pc' = [pc EXCEPT ![w] = "fetched"]
    /\ UNCHANGED <<DiskCache, req, size, local, skin, user, calls, resp,
                   accepted, sizeIn, sizeOut, stamps, timing>>

\* a failed write that takes the skin with it
SaveWriteFailLosesSkin(w) ==
    /\ pc[w] = "write"
    /\ saved' = [saved EXCEPT ![w] = "writefailed"]
    /\ skin' = [skin EXCEPT ![w] = NilSkin]
    /\ pc' = [pc EXCEPT ![w] = "fetched"]
    /\ UNCHANGED <<DiskCache, disk, trailing, req, size, local, user, calls,
                   resp, accepted, sizeIn, sizeOut, stamps, timing>>

\* the write fails; saveLocalSkin drops the error
SaveWriteFail(w) ==
    /\ pc[w] = "write"
    /\ saved' = [saved EXCEPT ![w] = "writefailed"]
    /\ pc' = [pc EXCEPT ![w] = "fetched"]
    /\ UNCHANGED <<DiskCache, disk, trailing, req, size, local, skin, user, calls,
                   resp, accepted, sizeIn, sizeOut, stamps, timing>>

----------------------------------------------------------------------------
(* The handlers' responses *)

\* GetHead / GetHelm on a skin: an image of a decoded skin; of the zero
\* Skin, whose Image is nil, an error or a panic
CallbackOutcomes(s) == IF s = NilSkin THEN {"error", "panic"} ELSE {"image"}

\* WritePNG of an image: the encoded image; of a nil image, a panic or
\* nothing written
WritePNGOutcomes(s) == IF s = NilSkin THEN {"panic", "empty"} ELSE {"png"}

\* fetchImageProcessThen's variable ok, set once
ok == TRUE

XResult(k) == IF k THEN "ok" ELSE "failed"

Timeout(k) == IF k THEN TimeoutActualSkin ELSE TimeoutFailedFetch

\* a panic in a handler: net/http recovers it and drops the connection
Aborted == [NoResp EXCEPT !.status = -1]

\* fetchImageProcessThen after fetchSkin: the callback's image, resized to
\* size x size, with X-Requested, X-Result and Cache-Control
RespondProcessed(w) ==
    /\ pc[w] = "fetched"
    /\ req[w].route \in Processed
    /\ "image" \in CallbackOutcomes(skin[w])
    /\ resp' = [resp EXCEPT ![w] =
                  [status |-> 200, requested |-> "processed",
                   result |-> XResult(ok), maxAge |-> Timeout(ok),
                   attachment |-> FALSE, view |-> req[w].route,
                   image |-> skin[w], side |-> size[w]]]
    /\ pc' = [pc EXCEPT ![w] = "done"]
    /\ UNCHANGED <<DiskCache, disk, trailing, req, size, local, skin, user, calls,
                   saved, accepted, sizeIn, sizeOut, stamps, timing>>

\* an error of the callback that is only seen after the headers are set
RespondServerErrorMasked(w) ==
    /\ pc[w] = "fetched"
    /\ req[w].route \in Processed
    /\ "error" \in CallbackOutcomes(skin[w])
    /\ resp' = [resp EXCEPT ![w] =
                  [status |-> 500, requested |-> "processed",
                   result |-> XResult(ok), maxAge |-> Timeout(ok),
                   attachment |-> FALSE, view |-> "", image |-> NilSkin,
                   side |-> 0]]
    /\ pc' = [pc EXCEPT ![w] = "done"]
    /\ UNCHANGED <<DiskCache, disk, trailing, req, size, local, skin, user,
                   calls, saved, accepted, sizeIn, sizeOut, stamps, timing>>

\* the callback returns an error: serverErrorPage
RespondServerError(w) ==
    /\ pc[w] = "fetched"
    /\ req[w].route \in Processed
    /\ "error" \in CallbackOutcomes(skin[w])
    /\ resp' = [resp EXCEPT ![w] = [NoResp EXCEPT !.status = 500]]
    /\ pc' = [pc EXCEPT ![w] = "done"]
    /\ UNCHANGED <<DiskCache, disk, trailing, req, size, local, skin, user, calls,
                   saved, accepted, sizeIn, sizeOut, stamps, timing>>

RespondProcessedPanic(w) ==
    /\ pc[w] = "fetched"
    /\ req[w].route \in Processed
    /\ "panic" \in CallbackOutcomes(skin[w])
    /\ resp' = [resp EXCEPT ![w] = Aborted]
    /\ pc' = [pc EXCEPT ![w] = "done"]
    /\ UNCHANGED <<DiskCache, disk, trailing, req, size, local, skin, user, calls,
                   saved, accepted, sizeIn, sizeOut, stamps, timing>>

\* skinPage, and downloadPage, which adds Content-Disposition: the skin
\* itself with X-Requested and X-Result, and no Cache-Control
SkinResponse(w) ==
    [status |-> 200, requested |-> "skin", result |-> "ok", maxAge |-> -1,
     attachment |-> (req[w].route = "download"), view |-> "raw",
     image |-> skin[w], side |-> 0]

RespondSkin(w) ==
    /\ pc[w] = "fetched"
    /\ req[w].route \notin Processed
    /\ "png" \in WritePNGOutcomes(skin[w])
    /\ resp' = [resp EXCEPT ![w] = SkinResponse(w)]
    /\ pc' = [pc EXCEPT ![w] = "done"]
    /\ UNCHANGED <<DiskCache, disk, trailing, req, size, local, skin, user, calls,
                   saved, accepted, sizeIn, sizeOut, stamps, timing>>

\* the headers go out with no image behind them
RespondSkinEmpty(w) ==
    /\ pc[w] = "fetched"
    /\ req[w].route \notin Processed
    /\ "empty" \in WritePNGOutcomes(skin[w])
    /\ resp' = [resp EXCEPT ![w] = SkinResponse(w)]
    /\ pc' = [pc EXCEPT ![w] = "done"]
    /\ UNCHANGED <<DiskCache, disk, trailing, req, size, local, skin, user, calls,
                   saved, accepted, sizeIn, sizeOut, stamps, timing>>

RespondSkinPanic(w) ==
    /\ pc[w] = "fetched"
    /\ req[w].route \notin Processed
    /\ "panic" \in WritePNGOutcomes(skin[w])
    /\ resp' = [resp EXCEPT ![w] = Aborted]
    /\ pc' = [pc EXCEPT ![w] = "done"]
    /\ UNCHANGED <<DiskCache, disk, trailing, req, size, local, skin, user, calls,
                   saved, accepted, sizeIn, sizeOut, stamps, timing>>

----------------------------------------------------------------------------
(* The server *)

Next ==
    \/ \E w \in Workers, r \in Requests : Accept(w, r)
    \/ \E w \in Workers : LocalSkipped(w)
    \/ \E w \in Workers : LocalHit(w)
    \/ \E w \in Workers : LocalMiss(w)
    \/ \E w \in Workers : GetSkinOk(w)
    \/ \E w \in Workers : GetSkinFail(w)
    \/ \E w \in Workers, c \in Names : GetUserOk(w, c)
    \/ \E w \in Workers : GetUserFail(w)
    \/ \E w \in Workers : GetUserSkinOk(w)
    \/ \E w \in Workers : GetUserSkinFail(w)
    \/ \E w \in Workers : GetCharOk(w)
    \/ \E w \in Workers : GetCharFail(w)
    \/ \E w \in Workers : SaveSkipped(w)
    \/ \E w \in Workers : SaveOpen(w)
    \/ \E w \in Workers : SaveOpenFail(w)
    \/ \E w \in Workers : SaveWrite(w)
    \/ \E w \in Workers : SaveWriteFail(w)
    \/ \E w \in Workers : RespondProcessed(w)
    \/ \E w \in Workers : RespondServerError(w)
    \/ \E w \in Workers : RespondProcessedPanic(w)
    \/ \E w \in Workers : RespondSkin(w)
    \/ \E w \in Workers : RespondSkinEmpty(w)
    \/ \E w \in Workers : RespondSkinPanic(w)

Spec == Init /\ [][Next]_vars

----------------------------------------------------------------------------
(* rationalizeSize on its own, applied to every short string *)

InitSize ==
    /\ DiskCache = FALSE
    /\ disk = [k \in Keys |-> Absent]
    /\ trailing = [k \in Keys |-> NoTrailing]
    /\ stamps = NoStamps
    /\ timing = NoTiming
    /\ InitHandlers
    /\ sizeIn \in StringsUpTo(MaxSizeLen)
    /\ sizeOut = -1

\* sizeOut is -1 until the call has returned
ApplyRationalizeSize ==
    /\ sizeOut = -1
    /\ sizeOut' = rationalizeSize(sizeIn)
    /\ UNCHANGED <<DiskCache, disk, trailing, pc, req, size, local, skin, user, calls,
                   saved, resp, accepted, sizeIn,
                   stamps, timing>>

NextSize == ApplyRationalizeSize

SpecSize == InitSize /\ [][NextSize]_vars

----------------------------------------------------------------------------
(* The X-Timing header on its own, for four readings of the clock in order *)

NanosPerMilli == 1000000

\* timeBetween: the milliseconds between two times, whichever is first
timeBetween(timeA, timeB) ==
    IF timeB < timeA THEN (timeA - timeB) \div NanosPerMilli
    ELSE (timeB - timeA) \div NanosPerMilli

\* the four numbers of "%d+%d+%d=%dms": fetch, process, resize and total,
\* for timeReqStart, timeFetch, timeProcess and timeResize
XTiming(t) ==
    <<timeBetween(t[1], t[2]), timeBetween(t[2], t[3]),
      timeBetween(t[3], t[4]), timeBetween(t[1], t[4])>>

Instants == {i * TickNanos : i \in 0..MaxTicks}

InitTiming ==
    /\ DiskCache = FALSE
    /\ disk = [k \in Keys |-> Absent]
    /\ trailing = [k \in Keys |-> NoTrailing]
    /\ InitHandlers
    /\ sizeIn = <<>>
    /\ sizeOut = -1
    /\ stamps \in {t \in Instants \X Instants \X Instants \X Instants :
                      t[1] <= t[2] /\ t[2] <= t[3] /\ t[3] <= t[4]}
    /\ timing = NoTiming

ApplyXTiming ==
    /\ timing = NoTiming
    /\ timing' = XTiming(stamps)
    /\ UNCHANGED <<DiskCache, disk, trailing, pc, req, size, local, skin, user,
                   calls, saved, resp, accepted, sizeIn, sizeOut, stamps>>

NextTiming == ApplyXTiming

SpecTiming == InitTiming /\ [][NextTiming]_vars

----------------------------------------------------------------------------
(* Properties of rationalizeSize, checked under SpecSize *)

\* a string of decimal digits, and the number it writes
IsNumber(s) == s # <<>> /\ \A i \in 1..Len(s) : s[i] \in Digits

RECURSIVE Pow10(_)
Pow10(k) == IF k = 0 THEN 1 ELSE 10 * Pow10(k - 1)

RECURSIVE NumberOf(_)
NumberOf(s) ==
    IF s = <<>> THEN 0
    ELSE DigitValue(Head(s)) * Pow10(Len(s) - 1) + NumberOf(Tail(s))

\* C6: rationalizeSize always returns a size in MinSize..MaxSize: of a
\* number that fits the uint, MinSize when it is below MinSize, MaxSize
\* when it is above MaxSize and the number itself otherwise; of a string
\* that is empty or no number, DefaultSize.
C6_SizeClamped ==
    sizeOut # -1 =>
        /\ sizeOut \in MinSize..MaxSize
        /\ IsNumber(sizeIn) /\ NumberOf(sizeIn) <= MaxUint =>
              /\ NumberOf(sizeIn) < MinSize => sizeOut = MinSize
              /\ NumberOf(sizeIn) > MaxSize => sizeOut = MaxSize
              /\ NumberOf(sizeIn) \in MinSize..MaxSize =>
                    sizeOut = NumberOf(sizeIn)
        /\ ~IsNumber(sizeIn) => sizeOut = DefaultSize

\* a number above MaxSize that fits the uint has been clamped
C6_Witness ==
    /\ IsNumber(sizeIn)
    /\ NumberOf(sizeIn) > MaxSize
    /\ NumberOf(sizeIn) <= MaxUint
    /\ sizeOut = MaxSize

----------------------------------------------------------------------------
(* Properties of the resolver and the handlers, checked under Spec *)

\* fetchSkin has returned to the handler
Returned(w) == pc[w] \in {"fetched", "done"}

\* the handler's step out of the cache lookup
LooksUp(w) == pc[w] = "local" /\ pc'[w] # "local"

\* the skin is a real player's (Resolved), not the default one (Fallback)
IsResolved(s) == s \in RealSkins

FailedCall(c, op) == c.op = op /\ ~c.ok

\* the skin store and the identity service both failed for the username
Unknown(w) ==
    /\ Len(calls[w]) >= 2
    /\ FailedCall(calls[w][1], "GetSkin")
    /\ FailedCall(calls[w][2], "GetUser")

\* saveLocalSkin has created or truncated a file
TouchedDisk(w) == saved[w] \in {"opened", "written", "writefailed"}

\* C1: with the disk cache on, a lookup of a username whose file exists and
\* decodes returns that file's skin at once, and the resolution makes no
\* remote call, up to its response.
C1_CacheHitNoRemote ==
    /\ [][\A w \in Workers :
            LooksUp(w) /\ DiskCache /\ disk[req[w].username] \in Skins \ {NilSkin}
            => /\ local'[w] = "hit"
               /\ pc'[w] = "fetched"
               /\ skin'[w] = disk[req[w].username]
               /\ calls'[w] = <<>>]_vars
    /\ [](\A w \in Workers : local[w] = "hit" => Returned(w) /\ calls[w] = <<>>)

\* a request answered from the cache
C1_Witness ==
    \E w \in Workers :
        /\ local[w] = "hit"
        /\ pc[w] = "done"
        /\ resp[w].status = 200
        /\ resp[w].image = req[w].username

\* C2: once a resolution whose first skin fetch succeeded has returned, its
\* skin is a real player's and, with the disk cache on, the next lookup of
\* the same username is a cache hit that returns without a remote call.
C2_DirectFetchThenHit ==
    [][\A w, v \in Workers :
          /\ w # v
          /\ Returned(w)
          /\ calls[w] = <<Call("GetSkin", req[w].username, TRUE)>>
          /\ DiskCache
          /\ req[v].username = req[w].username
          /\ LooksUp(v)
          => /\ IsResolved(skin[w])
             /\ local'[v] = "hit"
             /\ pc'[v] = "fetched"
             /\ calls'[v] = <<>>]_vars

\* C3: a resolution that found no cache file, no skin and no account never
\* touches the disk cache, and is answered with the default skin.
C3_UnknownNoWrite ==
    \A w \in Workers :
        local[w] \in {"skipped", Absent} /\ Unknown(w)
        => /\ ~TouchedDisk(w)
           /\ pc[w] = "done" => resp[w].status = 200
                                /\ resp[w].image = DefaultSkin

\* C4: an avatar or helm response says ok with the long lifetime exactly
\* when its skin is a real player's, and failed with the short lifetime
\* exactly when it is the default skin.
C4_MetadataFollowsOutcome ==
    \A w \in Workers :
        pc[w] = "done" /\ resp[w].requested = "processed"
        => /\ IsResolved(resp[w].image)
              <=> resp[w].result = "ok"
                  /\ resp[w].maxAge = TimeoutActualSkin
           /\ resp[w].image = DefaultSkin
              <=> resp[w].result = "failed"
                  /\ resp[w].maxAge = TimeoutFailedFetch

\* C5: whatever fails, fetchSkin returns a bitmap (at worst the default
\* skin) and the request is answered with an image.
C5_NeverAnError ==
    \A w \in Workers :
        /\ Returned(w) => skin[w] # NilSkin
        /\ pc[w] = "done" => resp[w].status = 200

\* the identity service failed for the username
NoAccount(w) == Len(calls[w]) >= 2 /\ FailedCall(calls[w][2], "GetUser")

\* C7 as claimed: the failed identity lookup is the last remote call of its
\* resolution.
C7_NoCallAfterNoAccount ==
    \A w \in Workers : NoAccount(w) => Len(calls[w]) = 2

\* C7: after a failed identity lookup the resolution makes exactly one more
\* remote call, the fetch of the skin named "char", and none for the
\* username or an account; fetchSkin returns what that fetch gave, the
\* default skin when it succeeded.
C7_OnlyDefaultFetchAfterNoAccount ==
    \A w \in Workers :
        NoAccount(w)
        => /\ Len(calls[w]) <= 3
           /\ pc[w] # "getchar" <=> Len(calls[w]) = 3
           /\ Len(calls[w]) = 3
              => /\ calls[w][3].op = "GetSkin"
                 /\ calls[w][3].name = CharName
                 /\ skin[w] = IF calls[w][3].ok THEN DefaultSkin ELSE NilSkin

\* a resolution that ended with the default skin after a failed lookup
C7_Witness ==
    \E w \in Workers :
        /\ NoAccount(w)
        /\ Returned(w)
        /\ calls[w][3] = Call("GetSkin", CharName, TRUE)
        /\ skin[w] = DefaultSkin

\* C8: no file of the disk cache holds the default skin, and a resolution
\* that ends with anything but a real player's skin never touches the disk
\* cache.
C8_FallbackNeverCached ==
    /\ \A k \in Keys : disk[k] # DefaultSkin
    /\ \A w \in Workers :
          Returned(w) /\ ~IsResolved(skin[w]) => ~TouchedDisk(w)

\* the direct fetch failed, the lookup gave an account and the account's
\* skin was fetched
ViaAccount(w) ==
    /\ Len(calls[w]) = 3
    /\ FailedCall(calls[w][1], "GetSkin")
    /\ calls[w][2] = Call("GetUser", req[w].username, TRUE)
    /\ calls[w][3] = Call("GetSkin", user[w], TRUE)

\* C9 as claimed: when such a resolution returns with the disk cache on, the
\* file of the account's name holds the fetched skin.
C9_AccountSkinPersisted ==
    [][\A w \in Workers :
          ViaAccount(w) /\ DiskCache /\ ~Returned(w) /\ Returned(w)'
          => IsResolved(skin[w]) /\ disk'[user[w]] = skin[w]]_vars

\* C9: such a resolution returns the account's skin, a real player's, and
\* with the disk cache on it has by then tried to save it; when the write
\* is done, the file of the account's name holds the fetched skin.
C9_AccountSkinSaved ==
    /\ [](\A w \in Workers :
            ViaAccount(w)
            => /\ skin[w] = user[w] /\ IsResolved(skin[w])
               /\ Returned(w) /\ DiskCache => saved[w] # "none")
    /\ [][\A w \in Workers :
            ViaAccount(w) /\ saved[w] # "written" /\ saved'[w] = "written"
            => disk'[user[w]] = skin[w]]_vars

\* the skin of an account whose name is not the username is on the disk
C9_Witness ==
    \E w \in Workers :
        /\ ViaAccount(w)
        /\ Returned(w)
        /\ saved[w] = "written"
        /\ user[w] # req[w].username
        /\ disk[user[w]] = skin[w]

\* C10: with the disk cache on, a lookup that finds a file that does not
\* decode goes on to the skin store, whose fetch for the username is the
\* resolution's first call; such a request is answered with an image unless
\* the fetch of the default skin failed.
C10_BadEntryIsAMiss ==
    /\ [][\A w \in Workers :
            LooksUp(w) /\ DiskCache /\ disk[req[w].username] = Garbage
            => /\ local'[w] = Garbage
               /\ pc'[w] = "getskin"
               /\ calls'[w] = <<>>]_vars
    /\ [](\A w \in Workers :
            local[w] = Garbage /\ pc[w] # "getskin"
            => /\ calls[w] # <<>>
               /\ calls[w][1].op = "GetSkin"
               /\ calls[w][1].name = req[w].username
               /\ pc[w] = "done" /\ resp[w].status # 200
                  => calls[w][Len(calls[w])] = Call("GetSkin", CharName, FALSE))

\* a request that found bytes that do not decode and was answered with the
\* skin the skin store had
C10_Witness ==
    \E w \in Workers :
        /\ local[w] = Garbage
        /\ pc[w] = "done"
        /\ resp[w].status = 200
        /\ resp[w].image = req[w].username

\* C11: the remote calls of a resolution follow the chain.  The first is
\* the skin fetch for the username; the identity lookup is the second call
\* and comes only after that fetch failed; the skin fetch for the account
\* is the third and comes only after the lookup succeeded.  When the first
\* fetch succeeds it is the only call, and fetchSkin returns the username's
\* skin, a real player's.
C11_CallsFollowChain ==
    \A w \in Workers :
        /\ calls[w] # <<>>
           => /\ calls[w][1].op = "GetSkin"
              /\ calls[w][1].name = req[w].username
        /\ \A i \in 1..Len(calls[w]) :
              /\ calls[w][i].op = "GetUser"
                 => i = 2 /\ FailedCall(calls[w][1], "GetSkin")
              /\ i > 1 /\ calls[w][i].op = "GetSkin"
                       /\ calls[w][i].name # CharName
                 => /\ i = 3
                    /\ calls[w][2] = Call("GetUser", req[w].username, TRUE)
                    /\ calls[w][i].name = user[w]
        /\ calls[w] # <<>> /\ calls[w][1].ok
           => /\ Len(calls[w]) = 1
              /\ Returned(w)
              /\ skin[w] = req[w].username
              /\ IsResolved(skin[w])

\* a resolution that went through the whole chain, and one that stopped at
\* the first fetch
C11_Witness ==
    \E w, v \in Workers :
        /\ Returned(w)
        /\ Len(calls[w]) = 3
        /\ calls[w][3] = Call("GetSkin", user[w], TRUE)
        /\ Returned(v)
        /\ calls[v] = <<Call("GetSkin", req[v].username, TRUE)>>

\* no resolution is under way
Quiet == \A w \in Workers : pc[w] \in {"idle", "done"}

\* the resolutions whose saveLocalSkin opened the file of key k
WritersOf(k) == {w \in Workers : TouchedDisk(w) /\ user[w] = k}

\* C12: the cache is never corrupted.  Once the resolutions that wrote a
\* file have all finished, none of their writes having failed, the file
\* holds the bytes of one of their skins and nothing else; and a lookup
\* never returns a skin decoded from a file with other bytes behind the
\* image.
C12_NoCorruption ==
    /\ [](\A k \in Keys :
            /\ Quiet
            /\ WritersOf(k) # {}
            /\ \A w \in WritersOf(k) : saved[w] = "written" /\ skin[w] # NilSkin
            => /\ trailing[k] = NoTrailing
               /\ \E w \in WritersOf(k) : disk[k] = skin[w])
    /\ [][\A w \in Workers :
            LooksUp(w) /\ local'[w] = "hit"
            => trailing[req[w].username] = NoTrailing]_vars

\* C13: the three parts of X-Timing add up to its total.
C13_TimingAdditive ==
    timing # NoTiming => timing[1] + timing[2] + timing[3] = timing[4]

\* C14: a size written in digits whose number does not fit the uint is
\* clamped like any other number above MaxSize.
C14_HugeSizeClamped ==
    sizeOut # -1 /\ IsNumber(sizeIn) /\ NumberOf(sizeIn) > MaxUint
    => sizeOut = MaxSize

\* C15: when the callback gives no image the request is answered without
\* an image, X-Requested, X-Result or Cache-Control; the answer to a
\* callback's error is the bare 500 of serverErrorPage, and only a
\* callback's error is answered so.
C15_CallbackErrorPropagates ==
    \A w \in Workers :
        pc[w] = "done"
        => /\ req[w].route \in Processed
              /\ "image" \notin CallbackOutcomes(skin[w])
              => resp[w] \in {[NoResp EXCEPT !.status = 500], Aborted}
           /\ resp[w].status = 500
              => /\ req[w].route \in Processed
                 /\ "error" \in CallbackOutcomes(skin[w])
                 /\ resp[w] = [NoResp EXCEPT !.status = 500]

\* a request answered by serverErrorPage
C15_Witness ==
    \E w \in Workers :
        /\ pc[w] = "done"
        /\ req[w].route \in Processed
        /\ resp[w].status = 500

SaveFailed(w) == saved[w] \in {"openfailed", "writefailed"}

\* C16: a failed save is not seen by the caller.  Two resolutions with the
\* same remote calls and answers return the same skin whatever became of
\* their saves, and a request whose save failed is answered with the skin
\* its resolution fetched.
C16_SaveFailureUnseen ==
    /\ \A w, v \in Workers :
          Returned(w) /\ Returned(v) /\ calls[w] = calls[v] /\ calls[w] # <<>>
          => skin[w] = skin[v]
    /\ \A w \in Workers :
          pc[w] = "done" /\ SaveFailed(w) /\ skin[w] # NilSkin
          => /\ resp[w].status = 200
             /\ resp[w].image = skin[w]
             /\ skin[w] = calls[w][Len(calls[w])].name

\* two resolutions with the same calls, one save written and one failed
C16_Witness ==
    \E w, v \in Workers :
        /\ pc[w] = "done" /\ pc[v] = "done"
        /\ calls[w] = calls[v]
        /\ saved[w] = "written"
        /\ SaveFailed(v)
        /\ IsResolved(skin[v])
        /\ resp[v].image = resp[w].image

\* C17: no step removes a file of the cache, and a resolution served from
\* the cache makes no step that changes a file and never saves.
C17_CacheOnlyGrows ==
    /\ [][/\ \A k \in Keys : disk[k] # Absent => disk'[k] # Absent
          /\ \A w \in Workers :
                (local[w] = "hit" \/ local'[w] = "hit") /\ pc'[w] # pc[w]
                => disk' = disk /\ trailing' = trailing]_vars
    /\ [](\A w \in Workers : local[w] = "hit" => saved[w] = "none")

\* a request answered from a file that another resolution wrote
C17_Witness ==
    \E w, v \in Workers :
        /\ local[w] = "hit"
        /\ pc[w] = "done"
        /\ saved[v] = "written"
        /\ user[v] = req[w].username
        /\ resp[w].image = disk[user[v]]

\* C18: once a resolution that went through the identity lookup has saved
\* its skin, the next lookup of the same username is a cache hit that
\* returns without a remote call, whatever the account's name.
C18_SavedThenHit ==
    [][\A w, v \in Workers :
          /\ w # v
          /\ Returned(w)
          /\ ViaAccount(w)
          /\ saved[w] = "written"
          /\ req[v].username = req[w].username
          /\ LooksUp(v)
          => /\ local'[v] = "hit"
             /\ pc'[v] = "fetched"
             /\ calls'[v] = <<>>]_vars

====
